---- MODULE Spec2Model ----
(***************************************************************************)
(* A model of the ingestion-and-retrieval pipeline of the backend:         *)
(*   services/vector_search.py  add_document, delete_document,             *)
(*                              search_similar_chunks                      *)
(*   services/llm_client.py     answer_question_from_chunks and the three  *)
(*                              generate_answer backends                   *)
(*   routers/documents.py       _extract_text_from_pdf and its strategies  *)
(*                                                                         *)
(* Texts are sequences of characters.  Three characters are enough to      *)
(* drive every branch of the chunker: a letter, a space and a newline.     *)
(* Fixed messages (the apology, the backends' error texts) are sequences   *)
(* of one token, so that every text has the same type.                     *)
(***************************************************************************)
EXTENDS Integers, Sequences, FiniteSets, TLC

VARIABLES
    next_chunk_id,  \* vector_search._next_chunk_id
    collection,     \* the records of the persisted collection "financial_docs"
    pc,             \* per request: where the request is
    running,        \* the request that holds the event loop, or NoTask
    frame,          \* per request: the locals of its add_document call
    nreq,           \* number of upload requests started so far
    restarts,       \* number of process restarts so far
    assigned,       \* history: every chunk_id assigned, in order, over the collection's lifetime
    emitted,        \* history: every chunk_id assigned since the process started
    del_mark,       \* history: Len(emitted) when a delete last removed chunks in this process
    calls,          \* history: the finished add_document calls that ran while a request
                    \*          still in flight was in flight
    lastAdd,        \* the add_document call that has just returned, if the last step was one
    lastDelete,     \* the delete_document call that has just returned, if the last step was one
    delAny,         \* history: documents deleted (any outcome) since the last add_document
    delClean,       \* history: documents deleted without a store error since the last add_document
    index,          \* the collection's records as the engine ranks them for the query at hand
    search,         \* the search_similar_chunks call that has just returned, if any
    similarity_threshold,  \* vector_search.SIMILARITY_THRESHOLD, as configured, in 1/20000
    ans,            \* the answer_question_from_chunks call under way or just returned
    ext,            \* the _extract_text_from_pdf call under way or just returned
    split           \* the _split_with_overlap call under way or just returned

storeVars == <<next_chunk_id, collection, pc, running, frame, nreq, restarts,
               assigned, emitted, del_mark, calls, lastAdd, lastDelete, delAny, delClean>>

searchVars == <<index, search, similarity_threshold>>

vars == <<storeVars, searchVars, ans, ext, split>>

-----------------------------------------------------------------------------
(* Bounds of the model.                                                    *)

MaxTextLen == 5      \* longest text given to the chunker on its own
MaxChars == 3        \* largest max_chars_per_chunk tried
MaxOverlap == 2      \* largest overlap_chars tried (the smallest is -1)
MaxAdds == 2         \* upload requests in one behaviour of the store
MaxRestarts == 1     \* process restarts in one behaviour of the store

-----------------------------------------------------------------------------
(* Characters and Python's str operations.                                 *)

SP == " "
NL == "\n"
Chars == {"a", SP, NL}

IsSpace(c) == c \in {SP, NL}

Min(a, b) == IF a < b THEN a ELSE b
Max(a, b) == IF a > b THEN a ELSE b

RECURSIVE LStrip(_)
LStrip(s) ==
    IF s = <<>> THEN <<>>
    ELSE IF IsSpace(Head(s)) THEN LStrip(Tail(s)) ELSE s

RECURSIVE RStrip(_)
RStrip(s) ==
    IF s = <<>> THEN <<>>
    ELSE IF IsSpace(s[Len(s)]) THEN RStrip(SubSeq(s, 1, Len(s) - 1)) ELSE s

\* str.strip()
Strip(s) == RStrip(LStrip(s))

\* the position a slice bound i stands for in a sequence of length n: a
\* negative bound counts from the end, and every bound is cut to 0..n
SliceBound(i, n) == IF i < 0 THEN Max(0, n + i) ELSE Min(i, n)

\* s[start : stop]
Slice(s, start, stop) == SubSeq(s, SliceBound(start, Len(s)) + 1, SliceBound(stop, Len(s)))

\* the positions where "\n\n" occurs in s
BlankAt(s) == {i \in 1..(Len(s) - 1) : s[i] = NL /\ s[i + 1] = NL}

\* str.split("\n\n"): cut at the leftmost separator, then split the rest
RECURSIVE SplitBlank(_)
SplitBlank(s) ==
    IF BlankAt(s) = {} THEN <<s>>
    ELSE LET i == CHOOSE k \in BlankAt(s) : \A j \in BlankAt(s) : k <= j
         IN  <<SubSeq(s, 1, i - 1)>> \o SplitBlank(SubSeq(s, i + 2, Len(s)))

\* str(n) for n >= 0, as the sequence of its decimal digits
RECURSIVE ToStr(_)
ToStr(n) == IF n < 10 THEN <<n>> ELSE ToStr(n \div 10) \o <<n % 10>>

\* all texts of at most n characters
TextsUpTo(n) == UNION {[1..k -> Chars] : k \in 0..n}

-----------------------------------------------------------------------------
(* add_document: the chunker.                                              *)

ClampOverlapToMax(max_chars, overlap_chars) == Min(Max(0, overlap_chars), max_chars)

\* overlap_chars = min(max(0, overlap_chars), max_chars_per_chunk // 2)
ClampOverlap(max_chars, overlap_chars) ==
    Min(Max(0, overlap_chars), max_chars \div 2)

StepNoOverlap(max_chars, overlap_chars) == max_chars

\* step = max_chars_per_chunk - overlap_chars
Step(max_chars, overlap_chars) == max_chars - ClampOverlap(max_chars, overlap_chars)

WindowTooLong(block, start, max_chars) == Slice(block, start, start + max_chars + 1)

\* chunk = block[start : start + max_chars_per_chunk]
Window(block, start, max_chars) == Slice(block, start, start + max_chars)

\* the while loop of _split_with_overlap, from `start` on
RECURSIVE SplitLoop(_, _, _, _)
SplitLoop(block, start, max_chars, step) ==
    IF start < Len(block)
    THEN LET chunk == Window(block, start, max_chars)
         IN  (IF Strip(chunk) # <<>> THEN <<Strip(chunk)>> ELSE <<>>)
             \o SplitLoop(block, start + step, max_chars, step)
    ELSE <<>>

\* _split_with_overlap(block)
SplitWithOverlap(block, max_chars, step) ==
    IF Len(block) <= max_chars
    THEN (IF block # <<>> THEN <<block>> ELSE <<>>)
    ELSE SplitLoop(block, 0, max_chars, step)

\* the for loop over text.split("\n\n")
RECURSIVE ChunkBlocks(_, _, _)
ChunkBlocks(blocks, max_chars, step) ==
    IF blocks = <<>> THEN <<>>
    ELSE LET block == Strip(Head(blocks))
             here == IF block = <<>> THEN <<>>
                     ELSE SelectSeq(SplitWithOverlap(block, max_chars, step),
                                    LAMBDA c : c # <<>>)
         IN  here \o ChunkBlocks(Tail(blocks), max_chars, step)

\* the list `chunks` add_document builds from `content`
ChunkDocument(content, max_chars, overlap_chars) ==
    LET text == Strip(content)
    IN  IF text = <<>> THEN <<>>
        ELSE ChunkBlocks(SplitBlank(text), max_chars, Step(max_chars, overlap_chars))

-----------------------------------------------------------------------------
(* The embedding store: state, requests and the event loop.                *)
(*                                                                         *)
(* The handlers are coroutines of one asyncio event loop: a request runs   *)
(* until it awaits, and only then may another request run.  `running` is   *)
(* the request that holds the loop.  upload_document awaits once, at       *)
(* `await file.read()`; add_document has no await in its body, and         *)
(* delete_document is a plain function.                                    *)

\* the request slots, in the order in which new requests take them
TaskOrder == <<"r1", "r2">>
Tasks == {TaskOrder[i] : i \in 1..Len(TaskOrder)}
Rank(t) == CHOOSE i \in 1..Len(TaskOrder) : TaskOrder[i] = t
NoTask == "none"
Docs == {"d1", "d2"}

\* the contents uploaded in the store's behaviours: 0, 1 and 3 chunks
StoreTexts == { <<SP>>, <<"a">>, <<"a", "a", "a">> }
StoreParams == [max_chars |-> 2, overlap_chars |-> 1]

EmptyFrame ==
    [document_id |-> "", max_chars |-> 0, chunks |-> <<>>, ids |-> <<>>]

NoAdd ==
    [max_chars |-> 0, chunks |-> <<>>, persisted |-> {}, outcome |-> "none", ret |-> 0]

NoDelete ==
    [document_id |-> "", outcome |-> "none", raised |-> FALSE, ret |-> 0,
     before |-> {}, after |-> {}, counter_before |-> 0, counter_after |-> 0,
     prior_any |-> FALSE, prior_clean |-> FALSE]

\* no search_similar_chunks call has just returned
NoSearch ==
    [document_id |-> "", limit |-> 0, n_results |-> 0, metadatas |-> <<>>,
     distances |-> <<>>, chunks |-> <<>>, outcome |-> "none"]

\* no answer_question_from_chunks call is under way
NoAnswer ==
    [pc |-> "idle", provider |-> "", question |-> "", given |-> <<>>, max_chunks |-> 0,
     selected |-> <<>>, backend_calls |-> 0, outcome |-> "none", answer |-> <<>>,
     chunks_used |-> <<>>, raised |-> FALSE]

\* A text of the extraction strategies, by what _readability_score and
\* _looks_garbled read of it: its length, the number of its characters that
\* count as readable (alphanumeric, one of " .,$%()-/", newline or tab), whether
\* one of the vocabulary words occurs in it, and the number of its lone
\* surrogates (the characters UTF-8 cannot encode).  No text, or "": length 0.
NoText == [len |-> 0, good |-> 0, vocab |-> FALSE, lone |-> 0]

\* no _extract_text_from_pdf call is under way
NoExtract ==
    [pc |-> "idle",
     pymupdf_called |-> FALSE, pymupdf |-> "none", pymupdf_text |-> NoText,
     pdfplumber_called |-> FALSE, pdfplumber |-> "none", pdfplumber_text |-> NoText,
     ocr_called |-> FALSE, ocr |-> "none", ocr_text |-> NoText,
     best_text |-> NoText, best_score |-> [num |-> 0, den |-> 1], best_garbled |-> TRUE,
     result |-> "none", returned |-> NoText]

\* no _split_with_overlap call is under way
NoSplit ==
    [pc |-> "idle", block |-> <<>>, max_chars |-> 0, overlap_chars |-> 0, overlap |-> 0,
     step |-> 0, start |-> 0, result |-> <<>>, starts |-> <<>>]

\* float(os.getenv("VECTOR_SIMILARITY_THRESHOLD", "0.2")): the default, in 1/20000
SIMILARITY_THRESHOLD == 4000

OthersIdle ==
    /\ index = <<>>
    /\ search = NoSearch
    /\ similarity_threshold = SIMILARITY_THRESHOLD
    /\ ans = NoAnswer
    /\ ext = NoExtract
    /\ split = NoSplit

CanRun(t) == running \in {NoTask, t}

\* A request is in flight from the start of its handler to its return.
InFlight(t) == pc[t] # "idle"

\* `calls` once request t has returned: t is no longer in flight with any of them
Returned(cs, t) ==
    SelectSeq([i \in 1..Len(cs) |-> [cs[i] EXCEPT !.inflight = @ \ {t}]],
              LAMBDA c : c.inflight # {})

NextIdStuck(n) == n

\* _next_chunk_id += 1
NextId(n) == n + 1

RunningAfterAssignYield(t) == NoTask

\* The id loop of add_document holds no await: the request keeps the loop.
RunningAfterAssign(t) == t

\* the records add_document hands to _collection.add (document_name is left out:
\* it is stored and returned as given)
NewRecords(document_id, chunks, ids) ==
    { [key |-> ToStr(ids[i]), document_id |-> document_id, section |-> i,
       chunk_id |-> ids[i], content |-> chunks[i]] : i \in 1..Len(chunks) }

Keys(coll) == {r.key : r \in coll}

\* _collection.add: a record whose key the collection already holds is ignored
CollectionAdd(coll, recs) == coll \cup {r \in recs : r.key \notin Keys(coll)}

\* _collection.get(where={"document_id": document_id})
CollectionGet(coll, document_id) == {r \in coll : r.document_id = document_id}

DeleteEverything(coll, document_id, outcome, removed) ==
    IF outcome = "ok"
    THEN [collection |-> {}, ret |-> Cardinality(coll), raised |-> FALSE]
    ELSE [collection |-> coll \ removed, ret |-> 0, raised |-> FALSE]

DeleteNothing(coll, document_id, outcome, removed) ==
    [collection |-> coll \ removed,
     ret |-> IF outcome = "ok" THEN Cardinality(CollectionGet(coll, document_id)) ELSE 0,
     raised |-> FALSE]

\* delete_document(document_id).  outcome: "ok"; "get_error", _collection.get
\* raises; "delete_error", _collection.delete raises, having removed the
\* records `removed`.
DeleteDocument(coll, document_id, outcome, removed) ==
    LET found == CollectionGet(coll, document_id)
    IN  CASE outcome = "ok" ->
               [collection |-> coll \ found, ret |-> Cardinality(found), raised |-> FALSE]
          [] outcome = "get_error" ->
               [collection |-> coll, ret |-> 0, raised |-> FALSE]
          [] outcome = "delete_error" ->
               [collection |-> coll \ removed, ret |-> 0, raised |-> FALSE]

-----------------------------------------------------------------------------
(* Actions of the store.                                                   *)

\* upload_document up to `await file.read()`.  Request slots are anonymous:
\* a new request takes the lowest free one.
UploadStart(t) ==
    /\ UNCHANGED <<searchVars, ans, ext, split>>
    /\ pc[t] = "idle"
    /\ \A u \in Tasks : Rank(u) < Rank(t) => pc[u] # "idle"
    /\ running = NoTask
    /\ nreq < MaxAdds
    /\ nreq' = nreq + 1
    /\ pc' = [pc EXCEPT ![t] = "reading"]
    /\ lastAdd' = NoAdd
    /\ lastDelete' = NoDelete
    /\ UNCHANGED <<next_chunk_id, collection, running, frame, restarts, assigned, emitted,
                   del_mark, calls, delAny, delClean>>

\* add_document, lines 100-136: chunk the content; return 0 when nothing is left
AddBegin(t, document_id, content, max_chars, overlap_chars) ==
    /\ UNCHANGED <<searchVars, ans, ext, split>>
    /\ pc[t] = "reading"
    /\ CanRun(t)
    /\ LET chunks == ChunkDocument(content, max_chars, overlap_chars)
       IN  IF chunks = <<>>
           THEN /\ pc' = [pc EXCEPT ![t] = "idle"]
                /\ frame' = frame
                /\ running' = NoTask
                /\ calls' = Returned(calls, t)
                /\ lastAdd' = [NoAdd EXCEPT !.max_chars = max_chars, !.outcome = "empty"]
           ELSE /\ pc' = [pc EXCEPT ![t] = "assign"]
                /\ frame' = [frame EXCEPT ![t] =
                                [document_id |-> document_id, max_chars |-> max_chars,
                                 chunks |-> chunks, ids |-> <<>>]]
                /\ running' = t
                /\ calls' = calls
                /\ lastAdd' = NoAdd
    /\ lastDelete' = NoDelete
    /\ delAny' = {}
    /\ delClean' = {}
    /\ UNCHANGED <<next_chunk_id, collection, nreq, restarts, assigned, emitted, del_mark>>

\* one turn of the loop of lines 138-151
AddAssign(t) ==
    /\ UNCHANGED <<searchVars, ans, ext, split>>
    /\ pc[t] = "assign"
    /\ CanRun(t)
    /\ LET chunk_id == next_chunk_id
           ids == Append(frame[t].ids, chunk_id)
       IN  /\ next_chunk_id' = NextId(next_chunk_id)
           /\ frame' = [frame EXCEPT ![t].ids = ids]
           /\ assigned' = Append(assigned, chunk_id)
           /\ emitted' = Append(emitted, chunk_id)
           /\ pc' = [pc EXCEPT ![t] = IF Len(ids) = Len(frame[t].chunks)
                                      THEN "persist" ELSE "assign"]
    /\ running' = RunningAfterAssign(t)
    /\ lastAdd' = NoAdd
    /\ lastDelete' = NoDelete
    /\ UNCHANGED <<collection, nreq, restarts, del_mark, calls, delAny, delClean>>

\* lines 153-154: _collection.add embeds and persists the batch, or the embedding
\* provider fails and the exception leaves add_document
AddPersist(t, outcome) ==
    /\ UNCHANGED <<searchVars, ans, ext, split>>
    /\ pc[t] = "persist"
    /\ CanRun(t)
    /\ LET f == frame[t]
           after == IF outcome = "ok"
                    THEN CollectionAdd(collection, NewRecords(f.document_id, f.chunks, f.ids))
                    ELSE collection
           others == {u \in Tasks \ {t} : InFlight(u)}
           call == [document_id |-> f.document_id, ids |-> f.ids, inflight |-> others]
       IN  /\ collection' = after
           /\ calls' = IF others = {} THEN Returned(calls, t)
                       ELSE Append(Returned(calls, t), call)
           /\ lastAdd' = [max_chars |-> f.max_chars, chunks |-> f.chunks,
                          persisted |-> after \ collection, outcome |-> outcome,
                          ret |-> IF outcome = "ok" THEN Len(f.chunks) ELSE 0]
    /\ pc' = [pc EXCEPT ![t] = "idle"]
    /\ frame' = [frame EXCEPT ![t] = EmptyFrame]
    /\ running' = NoTask
    /\ lastDelete' = NoDelete
    /\ UNCHANGED <<next_chunk_id, nreq, restarts, assigned, emitted, del_mark, delAny, delClean>>

\* delete_document(document_id), called from the DELETE route
Delete(document_id, outcome, removed) ==
    /\ UNCHANGED <<searchVars, ans, ext, split>>
    /\ running = NoTask
    /\ next_chunk_id' = next_chunk_id
    /\ outcome = "delete_error" => CollectionGet(collection, document_id) # {}
    /\ LET r == DeleteDocument(collection, document_id, outcome, removed)
       IN  /\ collection' = r.collection
           /\ lastDelete' =
                  [document_id |-> document_id, outcome |-> outcome, raised |-> r.raised,
                   ret |-> r.ret, before |-> collection, after |-> r.collection,
                   counter_before |-> next_chunk_id, counter_after |-> next_chunk_id',
                   prior_any |-> document_id \in delAny,
                   prior_clean |-> document_id \in delClean]
           /\ del_mark' = IF r.collection # collection THEN Len(emitted) ELSE del_mark
    /\ delAny' = delAny \cup {document_id}
    /\ delClean' = IF outcome = "ok" THEN delClean \cup {document_id} ELSE delClean
    /\ lastAdd' = NoAdd
    /\ UNCHANGED <<pc, running, frame, nreq, restarts, assigned, emitted, calls>>

\* The process stops and starts again: the module is imported anew
\* (lines 64-77), the on-disk collection is reopened as it was left.
Restart ==
    /\ UNCHANGED <<searchVars, ans, ext, split>>
    /\ restarts < MaxRestarts
    /\ restarts' = restarts + 1
    /\ next_chunk_id' = 1
    /\ pc' = [t \in Tasks |-> "idle"]
    /\ frame' = [t \in Tasks |-> EmptyFrame]
    /\ running' = NoTask
    /\ emitted' = <<>>
    /\ del_mark' = 0
    /\ calls' = <<>>
    /\ lastAdd' = NoAdd
    /\ lastDelete' = NoDelete
    /\ UNCHANGED <<collection, nreq, assigned, delAny, delClean>>

StoreInit ==
    /\ next_chunk_id = 1
    /\ collection = {}
    /\ pc = [t \in Tasks |-> "idle"]
    /\ running = NoTask
    /\ frame = [t \in Tasks |-> EmptyFrame]
    /\ nreq = 0
    /\ restarts = 0
    /\ assigned = <<>>
    /\ emitted = <<>>
    /\ del_mark = 0
    /\ calls = <<>>
    /\ lastAdd = NoAdd
    /\ lastDelete = NoDelete
    /\ delAny = {}
    /\ delClean = {}

Init == StoreInit /\ OthersIdle

Next ==
    \/ \E t \in Tasks : UploadStart(t)
    \/ \E t \in Tasks, d \in Docs, content \in StoreTexts :
           AddBegin(t, d, content, StoreParams.max_chars, StoreParams.overlap_chars)
    \/ \E t \in Tasks : AddAssign(t)
    \/ \E t \in Tasks, outcome \in {"ok", "embed_error"} : AddPersist(t, outcome)
    \/ \E d \in Docs, outcome \in {"ok", "get_error"} : Delete(d, outcome, {})
    \/ \E d \in Docs : \E removed \in {{}, CollectionGet(collection, d)} :
           Delete(d, "delete_error", removed)
    \/ Restart

Spec == Init /\ [][Next]_vars

-----------------------------------------------------------------------------
(* The chunker on its own: one upload request has been received and awaits *)
(* its body; add_document is then run on every text of at most MaxTextLen  *)
(* characters with every max_chars_per_chunk >= 1 and overlap_chars.       *)

InitChunk ==
    /\ next_chunk_id = 1
    /\ collection = {}
    /\ pc = [t \in Tasks |-> IF Rank(t) = 1 THEN "reading" ELSE "idle"]
    /\ running = NoTask
    /\ frame = [t \in Tasks |-> EmptyFrame]
    /\ nreq = 1
    /\ restarts = 0
    /\ assigned = <<>>
    /\ emitted = <<>>
    /\ del_mark = 0
    /\ calls = <<>>
    /\ lastAdd = NoAdd
    /\ lastDelete = NoDelete
    /\ delAny = {}
    /\ delClean = {}
    /\ OthersIdle

NextChunk ==
    \/ \E t \in Tasks, content \in TextsUpTo(MaxTextLen),
          max_chars \in 1..MaxChars, overlap_chars \in (-1)..MaxOverlap :
           AddBegin(t, "d1", content, max_chars, overlap_chars)
    \/ \E t \in Tasks : AddAssign(t)
    \/ \E t \in Tasks, outcome \in {"ok", "embed_error"} : AddPersist(t, outcome)

SpecChunk == InitChunk /\ [][NextChunk]_vars

-----------------------------------------------------------------------------
(* _split_with_overlap, one turn of its loop at a time.                    *)
(*                                                                         *)
(* add_document calls it on every paragraph of the text: a stripped,       *)
(* non-empty block without a blank line in it.  The clamp and the step of  *)
(* lines 104-105 are computed before.  max_chars_per_chunk <= 0 is run     *)
(* too; the loop then never ends, and the model stops it after MaxTurns    *)
(* turns.                                                                  *)

MaxTurns == 6        \* turns after which a loop that does not end is left alone

\* the paragraphs of the texts of at most MaxTextLen characters
Blocks ==
    {b \in TextsUpTo(MaxTextLen) : b # <<>> /\ Strip(b) = b /\ BlankAt(b) = {}}

\* "A" * 2000 with the default CHUNK_MAX_CHARS and CHUNK_OVERLAP_CHARS
LongParagraph ==
    [block |-> [i \in 1..2000 |-> "a"], max_chars |-> 800, overlap_chars |-> 100]

\* lines 104-112: the clamp, the step, and _split_with_overlap(block) up to its loop
SplitBegin(block, max_chars, overlap_chars) ==
    /\ split.pc = "idle"
    /\ LET call == [NoSplit EXCEPT !.block = block, !.max_chars = max_chars,
                                   !.overlap_chars = overlap_chars,
                                   !.overlap = ClampOverlap(max_chars, overlap_chars),
                                   !.step = Step(max_chars, overlap_chars)]
       IN  split' = IF Len(block) <= max_chars
                    THEN [call EXCEPT !.pc = "done",
                                      !.result = IF block # <<>> THEN <<block>> ELSE <<>>]
                    ELSE [call EXCEPT !.pc = "loop"]
    /\ UNCHANGED <<storeVars, searchVars, ans, ext>>

\* lines 113-118: the loop test, then one turn of the loop or the return
SplitTurn ==
    /\ split.pc = "loop"
    /\ split.start < Len(split.block) => Len(split.starts) < MaxTurns
    /\ split' = IF split.start < Len(split.block)
                THEN LET chunk == Window(split.block, split.start, split.max_chars)
                     IN  [split EXCEPT !.result = IF Strip(chunk) # <<>>
                                                  THEN Append(@, Strip(chunk)) ELSE @,
                                       !.starts = Append(@, split.start),
                                       !.start = @ + split.step]
                ELSE [split EXCEPT !.pc = "done"]
    /\ UNCHANGED <<storeVars, searchVars, ans, ext>>

\* add_document extends `chunks` with the result and goes on
SplitTaken ==
    /\ split.pc = "done"
    /\ split' = NoSplit
    /\ UNCHANGED <<storeVars, searchVars, ans, ext>>

InitSplit == StoreInit /\ OthersIdle

NextSplit ==
    \/ \E block \in Blocks, max_chars \in (-2)..MaxChars, overlap_chars \in (-1)..MaxOverlap :
           SplitBegin(block, max_chars, overlap_chars)
    \/ SplitBegin(LongParagraph.block, LongParagraph.max_chars, LongParagraph.overlap_chars)
    \/ SplitTurn
    \/ SplitTaken

SpecSplit == InitSplit /\ [][NextSplit]_vars

\* the loop is plain synchronous code: a turn that can be taken is taken
SpecSplitFair == SpecSplit /\ WF_vars(SplitTurn)

-----------------------------------------------------------------------------
(* search_similar_chunks.                                                  *)
(*                                                                         *)
(* Distances are counted in hundredths, similarities in 1/20000, so that   *)
(* 1 - d and 1 - d*d/2 are exact:  similarity * 20000 is                   *)
(* (100 - d) * 200 for d <= 100 and 20000 - d * d above.                   *)
(* `index` is the collection as the engine ranks it for the query: the     *)
(* records in non-decreasing distance, best first.                         *)

MaxCands == 5        \* records in the collection when it is searched

\* distances (hundredths) on both sides of every comparison of the conversion
DistanceGrid == {25, 75, 90, 110, 130}
\* limits below, at and between the over-fetch cases: 4 * limit <= 50, and the cap
Limits == {1, 2, 5, 50}
NoDocument == "None"

\* the values SIMILARITY_THRESHOLD is configured to: 0.0, the default, 0.5
ThresholdGrid == {0, SIMILARITY_THRESHOLD, 10000}

\* lines 203-206: 1 - distance up to 1, max(0, 1 - distance^2 / 2) above
Similarity(distance) ==
    IF distance <= 100
    THEN (100 - distance) * 200
    ELSE Max(0, 20000 - distance * distance)

BelowThresholdQuarter(similarity) == similarity < similarity_threshold \div 4

\* similarity < SIMILARITY_THRESHOLD
BelowThreshold(similarity) == similarity < similarity_threshold

NResultsNoOverfetch(limit) == limit

\* n_results=min(limit * 4, 50)
NResults(limit) == Min(limit * 4, 50)

\* _collection.query(n_results, where, include distances): the best n_results
\* records of the ranking that match `where`, each with its distance
CollectionQuery(ranked, document_id, n_results) ==
    LET matching == SelectSeq(ranked, LAMBDA r : document_id = NoDocument
                                                 \/ r.document_id = document_id)
        top == SubSeq(matching, 1, Min(n_results, Len(matching)))
    IN  [metadatas |-> [i \in 1..Len(top) |->
                           [chunk_id |-> top[i].chunk_id, document_id |-> top[i].document_id]],
         distances |-> [i \in 1..Len(top) |-> top[i].distance]]

\* the for loop of lines 198-226, from candidate i on
RECURSIVE FilterLoop(_, _, _, _, _, _)
FilterLoop(metadatas, distances, use_threshold, limit, i, chunks) ==
    IF i > Len(metadatas) THEN chunks
    ELSE IF use_threshold /\ BelowThreshold(Similarity(distances[i]))
         THEN FilterLoop(metadatas, distances, use_threshold, limit, i + 1, chunks)
         ELSE LET more == Append(chunks, [id |-> metadatas[i].chunk_id,
                                          document_id |-> metadatas[i].document_id])
              IN  IF Len(more) >= limit THEN more
                  ELSE FilterLoop(metadatas, distances, use_threshold, limit, i + 1, more)

SearchChunksNoLimit(metadatas, distances, limit) ==
    FilterLoop(metadatas, distances, Len(distances) = Len(metadatas), Len(metadatas) + 1, 1, <<>>)

\* lines 190-228: the chunks search_similar_chunks returns for an engine response
SearchChunks(metadatas, distances, limit) ==
    LET use_threshold == Len(distances) = Len(metadatas)
        chunks == FilterLoop(metadatas, distances, use_threshold, limit, 1, <<>>)
    IN  SubSeq(chunks, 1, Min(limit, Len(chunks)))

\* A record is in the collection at some distance from the query; the engine
\* ranks it after the records that are at most as far.
IndexChunk(document_id, distance) ==
    /\ search = NoSearch
    /\ Len(index) < MaxCands
    /\ index # <<>> => index[Len(index)].distance <= distance
    /\ index' = Append(index, [chunk_id |-> Len(index) + 1, document_id |-> document_id,
                               distance |-> distance])
    /\ search' = NoSearch
    /\ UNCHANGED <<storeVars, similarity_threshold, ans, ext, split>>

\* eight records of one document at distances 0.1, 0.5, 0.7, 0.75, 0.82, 0.85,
\* 0.9 and 0.95 from the query: similarities 0.9, 0.5, 0.3, 0.25, 0.18, 0.15,
\* 0.1 and 0.05
EightCandidates ==
    LET distances == <<10, 50, 70, 75, 82, 85, 90, 95>>
    IN  [i \in 1..Len(distances) |->
            [chunk_id |-> i, document_id |-> "d1", distance |-> distances[i]]]

\* The collection holds the eight records, ranked for the query.
IndexEightCandidates ==
    /\ search = NoSearch
    /\ index = <<>>
    /\ index' = EightCandidates
    /\ search' = NoSearch
    /\ UNCHANGED <<storeVars, similarity_threshold, ans, ext, split>>

\* search_similar_chunks(query, document_id, limit)
SearchSimilarChunks(document_id, limit) ==
    /\ search = NoSearch
    /\ LET results == CollectionQuery(index, document_id, NResults(limit))
       IN  search' = [document_id |-> document_id, limit |-> limit,
                     n_results |-> NResults(limit),
                     metadatas |-> results.metadatas, distances |-> results.distances,
                     chunks |-> SearchChunks(results.metadatas, results.distances, limit),
                     outcome |-> "ok"]
    /\ UNCHANGED <<storeVars, index, similarity_threshold, ans, ext, split>>

\* the caller (chat_service) takes the chunks; the next search may come
SearchTaken ==
    /\ search # NoSearch
    /\ search' = NoSearch
    /\ UNCHANGED <<storeVars, index, similarity_threshold, ans, ext, split>>

InitSearch ==
    /\ StoreInit
    /\ index = <<>>
    /\ search = NoSearch
    /\ similarity_threshold \in ThresholdGrid
    /\ ans = NoAnswer
    /\ ext = NoExtract
    /\ split = NoSplit

NextSearch ==
    \/ \E d \in Docs, distance \in DistanceGrid : IndexChunk(d, distance)
    \/ IndexEightCandidates
    \/ \E d \in Docs \cup {NoDocument}, limit \in Limits : SearchSimilarChunks(d, limit)
    \/ SearchTaken

SpecSearch == InitSearch /\ [][NextSearch]_vars

-----------------------------------------------------------------------------
(* answer_question_from_chunks and the generation backends.                *)
(*                                                                         *)
(* A backend call ends in one of these ways (what the server did):         *)
(*   "no_api_key"       the provider's key is not configured               *)
(*   "transport_error"  the request fails before a response arrives        *)
(*   "timeout"          no response within the client's timeout            *)
(*   "http_status"      a 4xx/5xx response: raise_for_status raises        *)
(*   "bad_json"         the body is not JSON: resp.json() raises           *)
(*   "bad_shape"        JSON without choices[0].message.content            *)
(*   "text_raises"      Gemini's response.text raises (no usable candidate)*)
(*   "ok"               a response carrying the text `content`             *)

Providers == {"llama", "openai", "gemini"}

HttpOutcomes == {"transport_error", "timeout", "http_status", "bad_json", "bad_shape", "ok"}

\* the ways a call of each backend can end
Outcomes(provider) ==
    CASE provider = "llama" -> HttpOutcomes
      [] provider = "openai" -> HttpOutcomes \cup {"no_api_key"}
      [] provider = "gemini" -> {"no_api_key", "transport_error", "timeout", "text_raises", "ok"}

MaxContentLen == 2   \* longest text a backend answers with
MaxGiven == 3        \* most chunks handed to answer_question_from_chunks

Contents == UNION {[1..k -> {"a", SP}] : k \in 0..MaxContentLen}

Apology == <<"Unable to process the question at present. Please try again later.">>

\* the text of the "no relevant information" message: fixed words, then the question
Fallback(question) ==
    <<"I could not find any relevant information in the uploaded documents for your question:",
      question>>

LlmErrorText(provider) ==
    IF provider = "llama"
    THEN <<"[LLM_ERROR] Unexpected response format from Ollama chat API.">>
    ELSE <<"[LLM_ERROR] Unexpected response format from OpenAI API.">>

\* A backend call gives [error, text]: the class of the exception it raises
\* ("" when it returns), and the text it returns.

\* llm_llama_client.generate_answer and llm_openai_client.generate_answer
HttpGenerateAnswer(provider, outcome, content) ==
    CASE outcome = "ok" -> [error |-> "", text |-> Strip(content)]
      [] outcome = "bad_shape" -> [error |-> "", text |-> LlmErrorText(provider)]
      [] outcome = "no_api_key" -> [error |-> "RuntimeError", text |-> <<>>]
      [] outcome = "transport_error" -> [error |-> "httpx.TransportError", text |-> <<>>]
      [] outcome = "timeout" -> [error |-> "httpx.TimeoutException", text |-> <<>>]
      [] outcome = "http_status" -> [error |-> "httpx.HTTPStatusError", text |-> <<>>]
      [] outcome = "bad_json" -> [error |-> "json.JSONDecodeError", text |-> <<>>]

\* llm_gemini_client.generate_answer
GeminiGenerateAnswer(outcome, content) ==
    CASE outcome = "ok" -> [error |-> "", text |-> Strip(content)]
      [] outcome = "no_api_key" -> [error |-> "RuntimeError", text |-> <<>>]
      [] outcome = "transport_error" -> [error |-> "google.api_core.exceptions.ServiceUnavailable", text |-> <<>>]
      [] outcome = "timeout" -> [error |-> "google.api_core.exceptions.DeadlineExceeded", text |-> <<>>]
      [] outcome = "text_raises" -> [error |-> "ValueError", text |-> <<>>]

\* _call_llm(prompt)
CallLlm(provider, outcome, content) ==
    IF provider = "openai" THEN HttpGenerateAnswer("openai", outcome, content)
    ELSE IF provider = "gemini" THEN GeminiGenerateAnswer(outcome, content)
    ELSE HttpGenerateAnswer("llama", outcome, content)

PrefixFromEnd(chunks, max_chunks) ==
    SubSeq(chunks, Max(1, Len(chunks) - max_chunks + 1), Len(chunks))

\* list(chunks)[:max_chunks]
Prefix(chunks, max_chunks) ==
    IF max_chunks >= 0
    THEN SubSeq(chunks, 1, Min(max_chunks, Len(chunks)))
    ELSE SubSeq(chunks, 1, Max(0, Len(chunks) + max_chunks))

CaughtOnlyHttpx(error) ==
    error \in {"httpx.TransportError", "httpx.TimeoutException", "httpx.HTTPStatusError"}

\* except Exception: every class the backends raise derives from Exception
Caught(error) == error # ""

\* lines 90-102: try / except Exception, then `answer or <apology>`; gives
\* [raised, answer]: whether an exception leaves answer_question_from_chunks,
\* and the answer returned otherwise
Recover(result) ==
    IF result.error # "" /\ ~Caught(result.error)
    THEN [raised |-> TRUE, answer |-> <<>>]
    ELSE LET answer == IF result.error # "" THEN Apology ELSE result.text
         IN  [raised |-> FALSE, answer |-> IF answer # <<>> THEN answer ELSE Apology]

\* answer_question_from_chunks up to `await _call_llm(prompt)`, or to the
\* return of the fallback when no chunk is selected
AnswerBegin(provider, question, chunks, max_chunks) ==
    /\ ans.pc = "idle"
    /\ LET selected == Prefix(chunks, max_chunks)
           call == [NoAnswer EXCEPT !.provider = provider, !.question = question,
                                    !.given = chunks, !.max_chunks = max_chunks,
                                    !.selected = selected]
       IN  ans' = IF selected = <<>>
                  THEN [call EXCEPT !.pc = "done", !.outcome = "no_chunks",
                                    !.answer = Fallback(question), !.chunks_used = <<>>]
                  ELSE [call EXCEPT !.pc = "awaiting", !.backend_calls = 1]
    /\ UNCHANGED <<storeVars, searchVars, ext, split>>

\* the backend call ends, and answer_question_from_chunks returns
AnswerEnd(outcome, content) ==
    /\ ans.pc = "awaiting"
    /\ outcome \in Outcomes(ans.provider)
    /\ outcome # "ok" => content = <<>>
    /\ LET r == Recover(CallLlm(ans.provider, outcome, content))
       IN  ans' = [ans EXCEPT !.pc = "done", !.outcome = outcome, !.raised = r.raised,
                              !.answer = r.answer,
                              !.chunks_used = IF r.raised THEN <<>> ELSE ans.selected]
    /\ UNCHANGED <<storeVars, searchVars, ext, split>>

\* the caller takes the result; the next question may come
AnswerTaken ==
    /\ ans.pc = "done"
    /\ ans' = NoAnswer
    /\ UNCHANGED <<storeVars, searchVars, ext, split>>

\* the chunks a caller may hand over: the first k of three chunks, best first
GivenChunks == {[i \in 1..k |-> [id |-> i, document_id |-> "d1"]] : k \in 0..MaxGiven}

InitAnswer == StoreInit /\ OthersIdle

NextAnswer ==
    \/ \E provider \in Providers, question \in {"q1", "q2"}, chunks \in GivenChunks,
          max_chunks \in (-1)..MaxGiven :
           AnswerBegin(provider, question, chunks, max_chunks)
    \/ \E outcome \in HttpOutcomes \cup {"no_api_key", "text_raises"}, content \in Contents :
           AnswerEnd(outcome, content)
    \/ AnswerTaken

SpecAnswer == InitAnswer /\ [][NextAnswer]_vars

-----------------------------------------------------------------------------
(* _extract_text_from_pdf and its three strategies.                        *)
(*                                                                         *)
(* A strategy call ends in one of these ways:                              *)
(*   "import_error"  fitz is not installed: the strategy returns None      *)
(*   "open_error"    fitz.open raises: caught, the strategy returns None   *)
(*   "ocr_error"     OCR of every page raises (no Tesseract): each is      *)
(*                   caught, the strategy returns None                     *)
(*   "page_error"    loading a page or reading its text raises: the page   *)
(*                   loop has a finally and no except, the error leaves    *)
(*                   the strategy                                          *)
(*   "error"         pdfplumber raises                                     *)
(*   "ok"            the pages were read; their text may be empty          *)
(* The same bytes are read by both PyMuPDF strategies: fitz is installed   *)
(* for both or for neither, and fitz.open fails for both or for neither;   *)
(* the pages the primary strategy has loaded load again for OCR.           *)
(* Scores are fractions [num, den], compared by cross-multiplication.      *)

\* lengths on both sides of the 100 of _looks_garbled
TextLens == {99, 100, 500}

\* shares of readable characters, in percent, on both sides of 0.35
Percents == {0, 34, 35, 90, 100}

\* the non-empty texts a strategy may extract
Texts ==
    {t \in {[len |-> n, good |-> (n * p + 99) \div 100, vocab |-> v, lone |-> l] :
                n \in TextLens, p \in Percents, v \in BOOLEAN, l \in {0, 1}} :
        /\ t.lone <= t.len - t.good
        /\ t.vocab => t.good >= 3}

\* `if text:`
Truthy(t) == t.len > 0

\* _readability_score(text)
ReadabilityScore(t) ==
    IF t.len = 0 THEN [num |-> 0, den |-> 1] ELSE [num |-> t.good, den |-> t.len]

\* a > b on scores
ScoreGreater(a, b) == a.num * b.den > b.num * a.den

\* score < 0.35
ScoreBelowThreshold(score) == score.num * 100 < 35 * score.den

\* _looks_garbled(text)
LooksGarbled(t) == IF t.len = 0 \/ t.len < 100 THEN FALSE ELSE ~t.vocab

\* _ensure_utf8(text): every lone surrogate becomes "?", which is not readable either
EnsureUtf8(t) == [t EXCEPT !.lone = 0]

\* _extract_with_pymupdf(data): [raised, text]
ExtractWithPymupdf(outcome, text) ==
    CASE outcome = "import_error" -> [raised |-> FALSE, text |-> NoText]
      [] outcome = "open_error" -> [raised |-> FALSE, text |-> NoText]
      [] outcome = "page_error" -> [raised |-> TRUE, text |-> NoText]
      [] outcome = "ok" -> [raised |-> FALSE, text |-> text]

\* _extract_with_pdfplumber(data): [raised, text]
ExtractWithPdfplumber(outcome, text) ==
    CASE outcome = "error" -> [raised |-> TRUE, text |-> NoText]
      [] outcome = "ok" -> [raised |-> FALSE, text |-> text]

\* _extract_with_pymupdf_ocr(data): [raised, text]
ExtractWithPymupdfOcr(outcome, text) ==
    CASE outcome = "import_error" -> [raised |-> FALSE, text |-> NoText]
      [] outcome = "open_error" -> [raised |-> FALSE, text |-> NoText]
      [] outcome = "ocr_error" -> [raised |-> FALSE, text |-> NoText]
      [] outcome = "ok" -> [raised |-> FALSE, text |-> text]

\* line 172: score >= 0.35 and not garbled
FastPath(score, garbled) == ~ScoreBelowThreshold(score) /\ ~garbled

SecondaryReplacesWhenNone(score, best_score, best_text) == best_text = NoText

\* line 185: score > best_score or best_text is None
SecondaryReplaces(score, best_score, best_text) ==
    ScoreGreater(score, best_score) \/ best_text = NoText

NeedsOcrScoreOnly(best_garbled, best_score) == ScoreBelowThreshold(best_score)

\* line 191: best_garbled or best_score < 0.35
NeedsOcr(best_garbled, best_score) == best_garbled \/ ScoreBelowThreshold(best_score)

\* line 197: not ocr_garbled or ocr_score > best_score
OcrReplaces(ocr_garbled, ocr_score, best_score) ==
    ~ocr_garbled \/ ScoreGreater(ocr_score, best_score)

\* _extract_text_from_pdf returns `text`
Return(e, text) == [e EXCEPT !.pc = "done", !.result = "returned", !.returned = EnsureUtf8(text)]

\* an exception leaves _extract_text_from_pdf: the HTTPException of line 207
\* ("extraction_error"), or the error of a strategy ("error")
Raise(e, result) == [e EXCEPT !.pc = "done", !.result = result]

\* lines 167-176: the primary strategy (PyMuPDF) and the fast path
ExtractPrimary(outcome, text) ==
    /\ ext.pc = "idle"
    /\ outcome # "ok" => text = NoText
    /\ LET r == ExtractWithPymupdf(outcome, text)
           pymupdf_text == r.text
           score == ReadabilityScore(pymupdf_text)
           garbled == LooksGarbled(pymupdf_text)
           e == [NoExtract EXCEPT !.pymupdf_called = TRUE, !.pymupdf = outcome,
                                  !.pymupdf_text = pymupdf_text]
       IN  ext' = IF r.raised THEN Raise(e, "error")
                  ELSE IF Truthy(pymupdf_text)
                       THEN IF FastPath(score, garbled)
                            THEN Return(e, pymupdf_text)
                            ELSE [e EXCEPT !.pc = "pdfplumber", !.best_text = pymupdf_text,
                                           !.best_score = score, !.best_garbled = garbled]
                       ELSE [e EXCEPT !.pc = "pdfplumber"]
    /\ UNCHANGED <<storeVars, searchVars, ans, split>>

\* lines 179-200: the secondary strategy (pdfplumber), any error of it caught,
\* then the choice between returning the best text and calling OCR
ExtractSecondary(outcome, text) ==
    /\ ext.pc = "pdfplumber"
    /\ outcome # "ok" => text = NoText
    /\ LET r == ExtractWithPdfplumber(outcome, text)
           pdfplumber_text == r.text
           score == ReadabilityScore(pdfplumber_text)
           garbled == LooksGarbled(pdfplumber_text)
           e == [ext EXCEPT !.pdfplumber_called = TRUE, !.pdfplumber = outcome,
                            !.pdfplumber_text = pdfplumber_text]
           b == IF ~r.raised /\ Truthy(pdfplumber_text)
                   /\ SecondaryReplaces(score, ext.best_score, ext.best_text)
                THEN [e EXCEPT !.best_text = pdfplumber_text, !.best_score = score,
                               !.best_garbled = garbled]
                ELSE e
       IN  ext' = IF Truthy(b.best_text) /\ ~NeedsOcr(b.best_garbled, b.best_score)
                  THEN Return(b, b.best_text)
                  ELSE [b EXCEPT !.pc = "ocr"]
    /\ UNCHANGED <<storeVars, searchVars, ans, split>>

\* lines 193-210: the OCR strategy, to improve on the best text or as the last resort
ExtractOcr(outcome, text) ==
    /\ ext.pc = "ocr"
    /\ outcome # "ok" => text = NoText
    /\ outcome = "import_error" <=> ext.pymupdf = "import_error"
    /\ outcome = "open_error" <=> ext.pymupdf = "open_error"
    /\ LET r == ExtractWithPymupdfOcr(outcome, text)
           ocr_text == r.text
           ocr_score == ReadabilityScore(ocr_text)
           ocr_garbled == LooksGarbled(ocr_text)
           e == [ext EXCEPT !.ocr_called = TRUE, !.ocr = outcome, !.ocr_text = ocr_text]
       IN  ext' = IF r.raised THEN Raise(e, "error")
                  ELSE IF Truthy(ext.best_text)
                       THEN IF Truthy(ocr_text)
                               /\ OcrReplaces(ocr_garbled, ocr_score, ext.best_score)
                            THEN Return(e, ocr_text)
                            ELSE Return(e, ext.best_text)
                       ELSE IF Truthy(ocr_text)
                            THEN Return(e, ocr_text)
                            ELSE Raise(e, "extraction_error")
    /\ UNCHANGED <<storeVars, searchVars, ans, split>>

\* upload_document goes on, or its error is answered; the next upload may come
ExtractTaken ==
    /\ ext.pc = "done"
    /\ ext' = NoExtract
    /\ UNCHANGED <<storeVars, searchVars, ans, split>>

InitExtract == StoreInit /\ OthersIdle

NextExtract ==
    \/ \E outcome \in {"import_error", "open_error", "page_error", "ok"},
          text \in Texts \cup {NoText} : ExtractPrimary(outcome, text)
    \/ \E outcome \in {"error", "ok"}, text \in Texts \cup {NoText} :
           ExtractSecondary(outcome, text)
    \/ \E outcome \in {"import_error", "open_error", "ocr_error", "ok"},
          text \in Texts \cup {NoText} : ExtractOcr(outcome, text)
    \/ ExtractTaken

SpecExtract == InitExtract /\ [][NextExtract]_vars

-----------------------------------------------------------------------------
(* Claims about the chunk-id sequence.                                     *)

Range(seq) == {seq[i] : i \in 1..Len(seq)}

StrictlyIncreasing(seq) == \A i, j \in 1..Len(seq) : i < j => seq[i] < seq[j]

Contiguous(seq) == \A i \in 1..(Len(seq) - 1) : seq[i + 1] = seq[i] + 1

\* C1: within one process lifetime the chunk_ids add_document emits are strictly
\* increasing in emission order, within a call and across calls, so none is
\* emitted twice, also not the id of a chunk that a delete_document removed.
C1_IdMonotonicity == StrictlyIncreasing(emitted)

\* C1 witness: ids were emitted, a delete_document then removed chunks, and ids
\* were emitted again, all in one process lifetime.
C1_Witness ==
    /\ del_mark > 0
    /\ Len(emitted) > del_mark + 1
    /\ \E t \in Tasks : pc[t] = "persist"

\* C2: two add_document calls for different documents that were in flight at
\* the same time got disjoint sets of chunk_ids, and every call's ids are one
\* contiguous range (checked for the calls under way and the finished ones).
C2_ConcurrentAddsDisjoint ==
    /\ \A t \in Tasks : Contiguous(frame[t].ids)
    /\ \A i \in 1..Len(calls) : Contiguous(calls[i].ids)
    /\ \A t \in Tasks : \A i \in 1..Len(calls) :
           (t \in calls[i].inflight /\ frame[t].document_id # calls[i].document_id)
               => Range(frame[t].ids) \cap Range(calls[i].ids) = {}
    /\ \A t, u \in Tasks :
           (t # u /\ frame[t].document_id # frame[u].document_id)
               => Range(frame[t].ids) \cap Range(frame[u].ids) = {}

\* C2 witness: a request that was in flight while another request's add_document
\* ran has now been given its own ids, both calls having at least two chunks.
C2_Witness ==
    \E t \in Tasks : \E i \in 1..Len(calls) :
        /\ t \in calls[i].inflight
        /\ pc[t] = "persist"
        /\ frame[t].document_id # calls[i].document_id
        /\ Len(frame[t].ids) >= 2
        /\ Len(calls[i].ids) >= 2

\* C3: over the whole lifetime of the persisted collection, restarts of the
\* process included, add_document never assigns a chunk_id that it assigned before.
C3_NeverReassigned == \A i, j \in 1..Len(assigned) : i # j => assigned[i] # assigned[j]

-----------------------------------------------------------------------------
(* Claims about the chunker.                                               *)

BoundedChunks(chunks, max_chars) ==
    \A i \in 1..Len(chunks) : 0 < Len(chunks[i]) /\ Len(chunks[i]) <= max_chars

\* C4: every chunk add_document produces, and every chunk it persists, is
\* non-empty and at most max_chars_per_chunk long, for every text, every
\* max_chars_per_chunk >= 1 and every overlap_chars.
C4_ChunkBound ==
    /\ \A t \in Tasks : BoundedChunks(frame[t].chunks, frame[t].max_chars)
    /\ BoundedChunks(lastAdd.chunks, lastAdd.max_chars)
    /\ \A r \in lastAdd.persisted :
           0 < Len(r.content) /\ Len(r.content) <= lastAdd.max_chars

\* C4 witness: a paragraph longer than max_chars was cut into windows, one of
\* them of full length, and the chunks were persisted.
C4_Witness ==
    /\ lastAdd.outcome = "ok"
    /\ lastAdd.max_chars = 2
    /\ Cardinality(lastAdd.persisted) >= 3
    /\ \E r \in lastAdd.persisted : Len(r.content) = 2
    /\ \E r \in lastAdd.persisted : Len(r.content) = 1

\* the lengths of the chunks of a list
Lengths(chunks) == [i \in 1..Len(chunks) |-> Len(chunks[i])]

\* _split_with_overlap has returned for the 2000-character paragraph with
\* max_chars = 800 and overlap_chars = 100
LongParagraphSplit ==
    /\ split.pc = "done"
    /\ split.block = LongParagraph.block
    /\ split.max_chars = 800
    /\ split.overlap_chars = 100

\* C14: the 2000-character paragraph with max_chars = 800 and overlap = 100
\* gives exactly 3 chunks, of lengths 800, 800 and 500, from the windows that
\* start at 0, 700 and 1400; they are the chunks add_document makes of it.
C14_ScenarioB ==
    LongParagraphSplit =>
        /\ Lengths(split.result) = <<800, 800, 500>>
        /\ split.starts = <<0, 700, 1400>>
        /\ split.result = ChunkDocument(split.block, 800, 100)

\* C14 as amended: the 2000-character paragraph with max_chars = 800 and
\* overlap = 100 gives exactly 3 chunks, of lengths 800, 800 and 600, from the
\* windows that start at 0, 700 and 1400; they are the chunks add_document makes.
C14_ScenarioBLast600 ==
    LongParagraphSplit =>
        /\ Lengths(split.result) = <<800, 800, 600>>
        /\ split.starts = <<0, 700, 1400>>
        /\ split.result = ChunkDocument(split.block, 800, 100)

\* C14 witness: the paragraph was split and the third window ran to its end.
C14_Witness ==
    /\ LongParagraphSplit
    /\ Len(split.result) = 3
    /\ split.result[3] = SubSeq(split.block, 1401, 2000)

\* _split_with_overlap has returned for a paragraph longer than max_chars >= 1
LongBlockSplit ==
    /\ split.pc = "done"
    /\ split.max_chars >= 1
    /\ Len(split.block) > split.max_chars

\* the end of the window that starts at `start`, within the paragraph
WindowEnd(start) ==
    IF start + split.max_chars < Len(split.block)
    THEN start + split.max_chars ELSE Len(split.block)

\* C17: for a paragraph longer than max_chars the windows start at 0, step,
\* 2*step, ...; the last window is the first one whose end reaches the end of
\* the paragraph, and no window lies within the window before it.
C17_StopsWhenCovered ==
    LongBlockSplit =>
        LET n == Len(split.starts)
        IN  /\ n >= 1
            /\ \A i \in 1..n : split.starts[i] = (i - 1) * split.step
            /\ split.starts[n] + split.max_chars >= Len(split.block)
            /\ \A i \in 1..(n - 1) : split.starts[i] + split.max_chars < Len(split.block)
            /\ \A i \in 2..n : WindowEnd(split.starts[i]) > WindowEnd(split.starts[i - 1])

\* What holds of C17: the windows start at 0, step, 2*step, ..., and the last
\* one reaches the end of the paragraph.
C17_WindowsCoverParagraph ==
    LongBlockSplit =>
        LET n == Len(split.starts)
        IN  /\ n >= 1
            /\ \A i \in 1..n : split.starts[i] = (i - 1) * split.step
            /\ split.starts[n] + split.max_chars >= Len(split.block)

\* C18: for max_chars >= 1 and every overlap_chars, the clamped overlap is in
\* [0, max_chars / 2] and step = max_chars - overlap is at least 1; the loop of
\* _split_with_overlap, once entered, returns; for max_chars <= 0 the loop, once
\* entered, is never left.
C18_ClampAndTermination ==
    /\ []((split.pc # "idle" /\ split.max_chars >= 1) =>
              /\ 0 <= split.overlap
              /\ 2 * split.overlap <= split.max_chars
              /\ split.step = split.max_chars - split.overlap
              /\ split.step >= 1)
    /\ ((split.pc = "loop" /\ split.max_chars >= 1) ~> (split.pc = "done"))
    /\ [][(split.pc = "loop" /\ split.max_chars <= 0) => split.pc' = "loop"]_vars

\* C18 witness: overlap_chars was larger than max_chars, and the loop returned
\* after three turns or more.
C18_Witness ==
    /\ split.pc = "done"
    /\ split.max_chars >= 1
    /\ split.overlap_chars > split.max_chars
    /\ Len(split.starts) >= 3

\* C18 witness of the other case: with max_chars = 0 the loop is in its
\* MaxTurns-th turn, on a paragraph of one character.
C18_WitnessNoEnd ==
    /\ split.pc = "loop"
    /\ split.max_chars = 0
    /\ Len(split.block) = 1
    /\ Len(split.starts) = MaxTurns

-----------------------------------------------------------------------------
(* Claims about delete_document.                                           *)

OfDoc(coll, d) == {r \in coll : r.document_id = d}

\* C7, as stated: delete_document(d) removes every persisted chunk of d and no
\* other, returns the number of chunks removed, and leaves the counter unchanged.
C7_DeleteAllAndOnly ==
    lastDelete.outcome # "none" =>
        /\ lastDelete.after = lastDelete.before \ OfDoc(lastDelete.before, lastDelete.document_id)
        /\ lastDelete.ret = Cardinality(lastDelete.before \ lastDelete.after)
        /\ lastDelete.counter_after = lastDelete.counter_before

\* C7, amended: a delete_document(d) that meets no store error removes every
\* persisted chunk of d and returns their number; one that meets a store error
\* returns 0; in both cases no chunk of another document is removed, nothing is
\* added, and the counter is unchanged.
C7_DeleteAllAndOnlyUnlessError ==
    lastDelete.outcome # "none" =>
        LET d == lastDelete.document_id
        IN  /\ lastDelete.after \subseteq lastDelete.before
            /\ lastDelete.before \ lastDelete.after \subseteq OfDoc(lastDelete.before, d)
            /\ lastDelete.counter_after = lastDelete.counter_before
            /\ lastDelete.outcome = "ok" =>
                   /\ OfDoc(lastDelete.after, d) = {}
                   /\ lastDelete.ret = Cardinality(OfDoc(lastDelete.before, d))
            /\ lastDelete.outcome # "ok" => lastDelete.ret = 0

\* C7 witness: a delete without store error removed the chunks of one document
\* while another document's chunks were in the store.
C7_Witness ==
    /\ lastDelete.outcome = "ok"
    /\ lastDelete.ret >= 1
    /\ lastDelete.after # {}

\* C8, as stated: delete_document never raises; it returns 0 for an id with no
\* persisted chunks; after any delete_document(d), a second one with no add in
\* between returns 0 and leaves the store unchanged; a store error gives 0.
C8_DeleteIdempotent ==
    lastDelete.outcome # "none" =>
        /\ ~lastDelete.raised
        /\ OfDoc(lastDelete.before, lastDelete.document_id) = {} => lastDelete.ret = 0
        /\ lastDelete.prior_any =>
               (lastDelete.ret = 0 /\ lastDelete.after = lastDelete.before)
        /\ lastDelete.outcome # "ok" => lastDelete.ret = 0

\* C8, amended: as C8, but the second delete_document(d) returns 0 and leaves
\* the store unchanged when an earlier delete_document(d), with no add in
\* between, met no store error.
C8_DeleteIdempotentAfterCleanDelete ==
    lastDelete.outcome # "none" =>
        /\ ~lastDelete.raised
        /\ OfDoc(lastDelete.before, lastDelete.document_id) = {} => lastDelete.ret = 0
        /\ lastDelete.prior_clean =>
               (lastDelete.ret = 0 /\ lastDelete.after = lastDelete.before)
        /\ lastDelete.outcome # "ok" => lastDelete.ret = 0

\* C8 witness: a second delete_document(d) after one that met no store error,
\* with the store holding another document's chunks.
C8_Witness ==
    /\ lastDelete.prior_clean
    /\ lastDelete.outcome = "ok"
    /\ lastDelete.before # {}

-----------------------------------------------------------------------------
(* Claims about search_similar_chunks.                                     *)

\* the distance the engine reported for the returned chunk c
DistanceOf(c) ==
    LET i == CHOOSE k \in 1..Len(search.metadatas) : search.metadatas[k].chunk_id = c.id
    IN  search.distances[i]

\* the conversion as the claims state it: 1 - d when d <= 1, else max(0, 1 - d*d/2)
SimilarityAsClaimed(d) ==
    IF d <= 100 THEN 200 * (100 - d)
    ELSE IF 20000 - d * d > 0 THEN 20000 - d * d ELSE 0

SimilaritiesReturned ==
    [i \in 1..Len(search.chunks) |-> SimilarityAsClaimed(DistanceOf(search.chunks[i]))]

\* C5: every chunk search_similar_chunks returns has a similarity, derived from
\* its engine distance, of at least the configured threshold.
C5_ThresholdFiltering ==
    \A i \in 1..Len(search.chunks) : SimilaritiesReturned[i] >= similarity_threshold

\* C5 witness: a search returned a chunk although a better-ranked candidate of
\* the response was below the threshold and left out.
C5_Witness ==
    /\ Len(search.chunks) >= 2
    /\ \E k \in 1..Len(search.metadatas) :
           /\ SimilarityAsClaimed(search.distances[k]) < similarity_threshold
           /\ \E i \in 1..Len(search.chunks) :
                  DistanceOf(search.chunks[i]) > search.distances[k]

\* C6: the engine returning candidates best first, the similarities of the
\* chunks one search returns are non-increasing in the order returned.
C6_NonIncreasingSimilarity ==
    \A i, j \in 1..Len(search.chunks) :
        i < j => SimilaritiesReturned[i] >= SimilaritiesReturned[j]

\* the positions, in the engine's response, of the candidates whose similarity
\* is at least the threshold
PassingPositions ==
    SelectSeq([i \in 1..Len(search.metadatas) |-> i],
              LAMBDA i : SimilarityAsClaimed(search.distances[i]) >= similarity_threshold)

\* the first `limit` of them, as chunks
FirstPassing ==
    [k \in 1..(IF search.limit < Len(PassingPositions)
               THEN search.limit ELSE Len(PassingPositions)) |->
        [id |-> search.metadatas[PassingPositions[k]].chunk_id,
         document_id |-> search.metadatas[PassingPositions[k]].document_id]]

\* the search was the one of the eight candidates: document "d1", limit 5,
\* threshold 0.2
EightCandidatesSearched ==
    /\ index = EightCandidates
    /\ search.outcome = "ok"
    /\ search.document_id = "d1"
    /\ search.limit = 5
    /\ similarity_threshold = 4000

C16_AlwaysOverfetch ==
    search.outcome = "ok" =>
        /\ search.n_results > search.limit
        /\ Len(PassingPositions) >= search.limit => Len(search.chunks) = search.limit

\* C16 as amended: for every limit from 1 to 49 the engine is asked for
\* min(4 * limit, 50) candidates, more than `limit`; for a limit of 50 or more
\* it is asked for 50.  The chunks returned are `limit` in number whenever that
\* many candidates of the response pass the threshold.
C16_OverfetchBelowCap ==
    search.outcome = "ok" =>
        /\ search.limit < 50 =>
               /\ search.n_results > search.limit
               /\ search.n_results = (IF 4 * search.limit < 50 THEN 4 * search.limit ELSE 50)
        /\ search.limit >= 50 => search.n_results = 50
        /\ Len(PassingPositions) >= search.limit => Len(search.chunks) = search.limit

\* C16 witness: with limit 2 one of the two best candidates was below the
\* threshold, and the search still returned two chunks.
C16_Witness ==
    /\ search.outcome = "ok"
    /\ search.limit = 2
    /\ Len(search.chunks) = 2
    /\ \E k \in 1..2 : SimilarityAsClaimed(search.distances[k]) < similarity_threshold

-----------------------------------------------------------------------------
(* Claims about answer_question_from_chunks.                               *)

\* outcomes in which the backend call raises an error
RaisingOutcomes ==
    {"no_api_key", "transport_error", "timeout", "http_status", "bad_json", "text_raises"}

\* the failures the specification names: transport, timeout, and parsing of the response
NamedFailures ==
    {"transport_error", "timeout", "http_status", "bad_json", "bad_shape", "text_raises"}

\* C9: called with at least one chunk selected, when the backend call raises,
\* answer_question_from_chunks returns the apology and the selected chunks; no
\* exception escapes it, and the answer it returns is never empty.
C9_BackendIsolation ==
    ans.pc = "done" =>
        /\ ~ans.raised
        /\ ans.answer # <<>>
        /\ (ans.selected # <<>> /\ ans.outcome \in RaisingOutcomes) =>
               (ans.answer = Apology /\ ans.chunks_used = ans.selected)

\* C9 witness: two chunks were selected, the backend call timed out, the call returned.
C9_Witness ==
    /\ ans.pc = "done"
    /\ Len(ans.selected) = 2
    /\ ans.outcome = "timeout"

\* C10: for every backend and every failure of the backend call that the
\* specification names, the text returned to the caller is the apology.
C10_OnlyApologyOnFailure ==
    (ans.pc = "done" /\ ans.outcome \in NamedFailures) => ans.answer = Apology

\* the first n of the chunks, in the caller's order
FirstChunks(chunks, n) == [i \in 1..(IF n < Len(chunks) THEN n ELSE Len(chunks)) |-> chunks[i]]

\* C11: for a count max_chunks >= 0, answer_question_from_chunks selects the
\* first max_chunks of the given chunks in the caller's order; if none is
\* selected it returns the "no relevant information" message with the question
\* in it and an empty chunks_used, having made no backend call; otherwise it
\* makes exactly one backend call and returns the selected prefix as chunks_used.
C11_TruncateThenOneCall ==
    (ans.pc # "idle" /\ ans.max_chunks >= 0) =>
        /\ ans.selected = FirstChunks(ans.given, ans.max_chunks)
        /\ ans.selected = <<>> =>
               /\ ans.pc = "done"
               /\ ans.backend_calls = 0
               /\ ans.answer = Fallback(ans.question)
               /\ ans.question \in Range(ans.answer)
               /\ ans.chunks_used = <<>>
        /\ ans.selected # <<>> =>
               /\ ans.backend_calls = 1
               /\ ans.pc = "done" => ans.chunks_used = ans.selected

\* C11 witness: three chunks were given with max_chunks = 2, the backend
\* answered, and the call returned the first two chunks.
C11_Witness ==
    /\ ans.pc = "done"
    /\ Len(ans.given) = 3
    /\ ans.max_chunks = 2
    /\ ans.outcome = "ok"
    /\ Len(ans.chunks_used) = 2

\* C11 witness of the other case: chunks were given with max_chunks = 0, and
\* the call returned the "no relevant information" message.
C11_WitnessNoChunks ==
    /\ ans.pc = "done"
    /\ Len(ans.given) = 3
    /\ ans.max_chunks = 0
    /\ ans.backend_calls = 0

-----------------------------------------------------------------------------
(* Claims about _extract_text_from_pdf.                                    *)

\* a clean candidate: non-empty, readability at least 0.35, not flagged garbled
Clean(t) ==
    /\ t.len > 0
    /\ t.good * 100 >= 35 * t.len
    /\ ~(t.len >= 100 /\ ~t.vocab)

\* flagged garbled: at least 100 characters and none of the vocabulary words
Garbled(t) == t.len >= 100 /\ ~t.vocab

\* text a scores strictly higher than text b (both non-empty)
HigherScore(a, b) == a.good * b.len > b.good * a.len

\* the extraction has ended, by a return or by an error
ExtractEnded == ext.pc = "done"

\* C12: in every extraction in which the primary candidate is flagged garbled,
\* the OCR strategy has been invoked when the extraction ends.
C12_OcrWheneverPrimaryGarbled ==
    (ExtractEnded /\ Garbled(ext.pymupdf_text)) => ext.ocr_called

\* the secondary candidate took the primary's place as the best text and
\* needs no OCR: it scores strictly higher, at least 0.35, and is not garbled
SecondaryTookOver ==
    /\ ext.pdfplumber_text.len > 0
    /\ HigherScore(ext.pdfplumber_text, ext.pymupdf_text)
    /\ Clean(ext.pdfplumber_text)

\* C12 as amended: in every extraction in which the primary candidate is
\* flagged garbled, the OCR strategy has been invoked when the extraction ends,
\* except when the secondary candidate is clean and scores strictly higher than
\* the primary candidate; then that candidate is returned without OCR.
C12_OcrUnlessSecondaryTookOver ==
    (ExtractEnded /\ Garbled(ext.pymupdf_text)) =>
        IF SecondaryTookOver
        THEN ~ext.ocr_called /\ ext.result = "returned"
                             /\ ext.returned = EnsureUtf8(ext.pdfplumber_text)
        ELSE ext.ocr_called

\* C12 witness: the primary candidate had 500 characters, readability 0.9 and
\* no vocabulary word; OCR was invoked, and the extraction returned.
C12_Witness ==
    /\ ExtractEnded
    /\ ext.pymupdf_text.len = 500
    /\ ext.pymupdf_text.good = 450
    /\ ~ext.pymupdf_text.vocab
    /\ ext.ocr_called
    /\ ext.result = "returned"

\* the candidates the strategies produced
Candidates == {ext.pymupdf_text, ext.pdfplumber_text, ext.ocr_text} \ {NoText}

\* C13: the extraction fails with the extraction error exactly when no
\* strategy produced non-empty text; otherwise it returns a non-empty text that
\* is (UTF-8 normalised) one of the candidates; a primary candidate that scores
\* at least 0.35 and is not garbled is returned, and no other strategy is run.
C13_FailsIffNoCandidate ==
    ExtractEnded =>
        /\ (ext.result = "extraction_error") <=> (Candidates = {})
        /\ Candidates # {} =>
               /\ ext.result = "returned"
               /\ ext.returned.len > 0
               /\ \E c \in Candidates : ext.returned = EnsureUtf8(c)
        /\ Clean(ext.pymupdf_text) =>
               /\ ext.result = "returned"
               /\ ext.returned = EnsureUtf8(ext.pymupdf_text)
               /\ ~ext.pdfplumber_called
               /\ ~ext.ocr_called

\* What remains of C13 when no error leaves a strategy: the same statement for
\* the extractions in which the primary strategy did not raise.
C13_UnlessStrategyRaises ==
    (ExtractEnded /\ ext.result # "error") => C13_FailsIffNoCandidate

\* C19: whenever a strategy that ran produced a clean candidate, the text
\* returned is clean.
C19_CleanNeverDiscarded ==
    (ExtractEnded /\ ext.result = "returned" /\ \E c \in Candidates : Clean(c)) =>
        Clean(ext.returned)

\* C19 as amended: the text returned is clean whenever the primary or the OCR
\* candidate is clean, or the secondary candidate is clean and either there is
\* no primary candidate or it scores strictly higher than the primary candidate.
C19_CleanKeptUnlessOutscored ==
    (/\ ExtractEnded
     /\ ext.result = "returned"
     /\ \/ Clean(ext.pymupdf_text)
        \/ Clean(ext.ocr_text)
        \/ /\ Clean(ext.pdfplumber_text)
           /\ ext.pymupdf_text.len = 0 \/ HigherScore(ext.pdfplumber_text, ext.pymupdf_text))
    => Clean(ext.returned)

\* C19 witness: the primary candidate was below the threshold, the secondary
\* candidate was clean and scored higher, and it was returned.
C19_Witness ==
    /\ ExtractEnded
    /\ ext.result = "returned"
    /\ ext.pymupdf_text.len > 0
    /\ ~Clean(ext.pymupdf_text)
    /\ Clean(ext.pdfplumber_text)
    /\ ext.returned = EnsureUtf8(ext.pdfplumber_text)

====
